---- MODULE Spec2Model ----
(***************************************************************************)
(* Model of src/app.py: the Flask facade over the Gemini provider.         *)
(*                                                                         *)
(*   - module-level model selection (lines 22-61),                         *)
(*   - /analyze (lines 68-146), /scrape (lines 148-278), /health (280-283),*)
(*   - the response normalisation both handlers share (split on fences,    *)
(*     newline replacement, strip, json.loads).                            *)
(*                                                                         *)
(* Text is a sequence of one-character strings, so that str.split,         *)
(* the "in" test, str.strip, str.replace and str.lower are computed as     *)
(* Python computes them.                                                   *)
(***************************************************************************)
EXTENDS Integers, Sequences, FiniteSets, TLC

VARIABLES
    \* process startup (module level, lines 22-61)
    spc,            \* position of the module-level code
    model,          \* the global `model` (line 22)
    ci,             \* index of `candidate` in model_candidates (line 39)
    calls,          \* history: the provider calls startup has made, in order
    assigned,       \* history: the values assigned to `model` after line 22
    \* request handling
    workers,        \* per worker thread: the request it handles and its locals
    \* the normalisation pipeline applied to one response text
    npc, response_text, json_str, analysis

vars == <<spc, model, ci, calls, assigned, workers, npc, response_text, json_str, analysis>>

startupVars == <<spc, model, ci, calls, assigned>>
normVars == <<npc, response_text, json_str, analysis>>

(***************************************************************************)
(* Text                                                                    *)
(***************************************************************************)

None == "None"

\* The backquote character (a TLA+ string cannot hold it, so it is named).
BQ == "backquote"

\* The fence markers of lines 121-124: three backquotes, and three backquotes
\* followed by json.
Fence == <<BQ, BQ, BQ>>
FenceJson == <<BQ, BQ, BQ, "j", "s", "o", "n">>

\* What str.strip() removes (the ASCII whitespace).
Whitespace == {" ", "\n", "\t", "\r"}

\* str.find(sep, from): the least index >= from where sep occurs, 0 when none.
Find(s, sep, from) ==
    LET hits == {i \in from..(Len(s) - Len(sep) + 1) :
                    SubSeq(s, i, i + Len(sep) - 1) = sep}
    IN IF hits = {} THEN 0
       ELSE CHOOSE i \in hits : \A j \in hits : i <= j

\* sep in s
Contains(s, sep) == Find(s, sep, 1) # 0

\* s.split(sep): the pieces between the non-overlapping occurrences of sep,
\* found left to right.
RECURSIVE Split(_, _)
Split(s, sep) ==
    LET i == Find(s, sep, 1)
    IN IF i = 0 THEN <<s>>
       ELSE <<SubSeq(s, 1, i - 1)>> \o Split(SubSeq(s, i + Len(sep), Len(s)), sep)

\* s.strip()
Strip(s) ==
    LET keep == {i \in 1..Len(s) : s[i] \notin Whitespace}
    IN IF keep = {} THEN <<>>
       ELSE LET lo == CHOOSE i \in keep : \A j \in keep : i <= j
                hi == CHOOSE i \in keep : \A j \in keep : i >= j
            IN SubSeq(s, lo, hi)

\* s.replace('\n', ' ')
ReplaceNewlines(s) == [i \in 1..Len(s) |-> IF s[i] = "\n" THEN " " ELSE s[i]]

(***************************************************************************)
(* Response normalisation (lines 121-129 and 253-261)                      *)
(***************************************************************************)

\* line 122 / 254
ExtractJsonFenced(text) == Strip(Split(Split(text, FenceJson)[2], Fence)[1])

\* line 124 / 256
ExtractGenericFenced(text) == Strip(Split(text, Fence)[2])

\* lines 121-126 / 253-258
ExtractJson(text) ==
    IF Contains(text, FenceJson) THEN ExtractJsonFenced(text)
    ELSE IF Contains(text, Fence) THEN ExtractGenericFenced(text)
    ELSE text

\* line 129 / 261
CleanJson(s) == Strip(ReplaceNewlines(s))

(***************************************************************************)
(* json.loads, on the JSON grammar over the modelled alphabet: objects,    *)
(* arrays, strings without escapes, non-negative integers, whitespace.     *)
(* A value is a record of one shape, so that any two values compare:       *)
(*   t = "num" (n), "str" (s), "arr" (items), "obj" (items: key, value,    *)
(*   key, value, ...), or "err" for a JSONDecodeError.                     *)
(***************************************************************************)

JsonWs == {" ", "\t", "\n", "\r"}
Digits == <<"0", "1", "2", "3", "4", "5", "6", "7", "8", "9">>
IsDigit(c) == \E d \in 1..10 : Digits[d] = c
DigitVal(c) == (CHOOSE d \in 1..10 : Digits[d] = c) - 1
\* Characters a strict decoder refuses inside a string.
ControlChars == {"\n", "\t", "\r"}

JNum(n) == [t |-> "num", n |-> n, s |-> <<>>, items |-> <<>>]
JStr(s) == [t |-> "str", n |-> 0, s |-> s, items |-> <<>>]
JArr(items) == [t |-> "arr", n |-> 0, s |-> <<>>, items |-> items]
JObj(items) == [t |-> "obj", n |-> 0, s |-> <<>>, items |-> items]
JErr == [t |-> "err", n |-> 0, s |-> <<>>, items |-> <<>>]

\* A scan result: ok, the value and the index after it.
Scan(v, pos) == [ok |-> TRUE, v |-> v, pos |-> pos]
ScanFail == [ok |-> FALSE, v |-> JErr, pos |-> 0]

\* WHITESPACE.match(s, i).end()
SkipWs(s, i) ==
    LET stops == {j \in i..Len(s) : s[j] \notin JsonWs}
    IN IF stops = {} THEN Len(s) + 1
       ELSE CHOOSE j \in stops : \A k \in stops : j <= k

\* The string whose opening quote is at i - 1.
ScanString(s, i) ==
    LET q == Find(s, <<"\"">>, i)
    IN IF q = 0 THEN ScanFail
       ELSE IF \E k \in i..(q - 1) : s[k] \in ControlChars \/ s[k] = "\\" THEN ScanFail
       ELSE Scan(JStr(SubSeq(s, i, q - 1)), q + 1)

\* The integer starting at i.
ScanNumber(s, i) ==
    LET ends == {j \in i..Len(s) : ~IsDigit(s[j])}
        e == IF ends = {} THEN Len(s) + 1 ELSE CHOOSE j \in ends : \A k \in ends : j <= k
        val[j \in (i - 1)..(e - 1)] == IF j = i - 1 THEN 0 ELSE 10 * val[j - 1] + DigitVal(s[j])
    IN IF s[i] = "0" THEN Scan(JNum(0), i + 1)
       ELSE Scan(JNum(val[e - 1]), e)

\* dict[key] = value: a repeated key keeps its place and takes the new value.
SetItem(items, k, v) ==
    LET at == {j \in 1..(Len(items) \div 2) : items[2 * j - 1] = k}
    IN IF at = {} THEN items \o <<k, v>>
       ELSE LET j == CHOOSE x \in at : TRUE
            IN [items EXCEPT ![2 * j] = v]

RECURSIVE ScanValue(_, _)
RECURSIVE ScanElements(_, _, _)
RECURSIVE ScanMembers(_, _, _)

\* scan_once(s, i)
ScanValue(s, i) ==
    IF i > Len(s) THEN ScanFail
    ELSE IF s[i] = "\"" THEN ScanString(s, i + 1)
    ELSE IF s[i] = "{" THEN
        LET j == SkipWs(s, i + 1)
        IN IF j <= Len(s) /\ s[j] = "}" THEN Scan(JObj(<<>>), j + 1)
           ELSE ScanMembers(s, j, <<>>)
    ELSE IF s[i] = "[" THEN
        LET j == SkipWs(s, i + 1)
        IN IF j <= Len(s) /\ s[j] = "]" THEN Scan(JArr(<<>>), j + 1)
           ELSE ScanElements(s, j, <<>>)
    ELSE IF IsDigit(s[i]) THEN ScanNumber(s, i)
    ELSE ScanFail

\* The elements of an array from i, `acc` being those already scanned.
ScanElements(s, i, acc) ==
    LET r == ScanValue(s, i)
    IN IF ~r.ok THEN ScanFail
       ELSE LET j == SkipWs(s, r.pos)
            IN IF j > Len(s) THEN ScanFail
               ELSE IF s[j] = "]" THEN Scan(JArr(Append(acc, r.v)), j + 1)
               ELSE IF s[j] = "," THEN ScanElements(s, SkipWs(s, j + 1), Append(acc, r.v))
               ELSE ScanFail

\* The members of an object from i (at a key's opening quote).
ScanMembers(s, i, acc) ==
    IF i > Len(s) \/ s[i] # "\"" THEN ScanFail
    ELSE LET k == ScanString(s, i + 1)
         IN IF ~k.ok THEN ScanFail
            ELSE LET c == SkipWs(s, k.pos)
                 IN IF c > Len(s) \/ s[c] # ":" THEN ScanFail
                    ELSE LET r == ScanValue(s, SkipWs(s, c + 1))
                         IN IF ~r.ok THEN ScanFail
                            ELSE LET j == SkipWs(s, r.pos)
                                     items == SetItem(acc, k.v, r.v)
                                 IN IF j > Len(s) THEN ScanFail
                                    ELSE IF s[j] = "}" THEN Scan(JObj(items), j + 1)
                                    ELSE IF s[j] = "," THEN ScanMembers(s, SkipWs(s, j + 1), items)
                                    ELSE ScanFail

\* json.loads(s): the value, or JErr for a JSONDecodeError (no value, or
\* extra data after it).
JsonLoads(s) ==
    LET r == ScanValue(s, SkipWs(s, 1))
    IN IF r.ok /\ SkipWs(s, r.pos) = Len(s) + 1 THEN r.v ELSE JErr

(***************************************************************************)
(* URLs (lines 161-163 and 177-178)                                        *)
(***************************************************************************)

UpperChars == <<"A", "B", "C", "D", "E", "F", "G", "H", "I", "J", "K", "L", "M", "N", "O", "P", "Q", "R", "S", "T", "U", "V", "W", "X", "Y", "Z">>
LowerChars == <<"a", "b", "c", "d", "e", "f", "g", "h", "i", "j", "k", "l", "m", "n", "o", "p", "q", "r", "s", "t", "u", "v", "w", "x", "y", "z">>
Letters == {UpperChars[i] : i \in 1..26} \cup {LowerChars[i] : i \in 1..26}

\* c.lower()
LowerChar(c) ==
    IF \E i \in 1..26 : UpperChars[i] = c
    THEN LowerChars[CHOOSE i \in 1..26 : UpperChars[i] = c]
    ELSE c

\* s.lower()
Lower(s) == [i \in 1..Len(s) |-> LowerChar(s[i])]

\* urllib.parse.scheme_chars
SchemeChars == Letters \cup {Digits[d] : d \in 1..10} \cup {"+", "-", "."}

\* The least index >= from of a character of `chars` in s, Len(s) + 1 when none.
FirstOf(s, chars, from) ==
    LET hits == {i \in from..Len(s) : s[i] \in chars}
    IN IF hits = {} THEN Len(s) + 1
       ELSE CHOOSE i \in hits : \A j \in hits : i <= j

\* urllib.parse.urlparse(url), as far as line 162 reads it: the scheme (the
\* text before the first colon when it is a letter followed by scheme
\* characters, lowered), the netloc (after a leading //, up to the first
\* / ? or #), and whether a ValueError is raised (an unmatched bracket in
\* the netloc).
urlparse(url) ==
    LET colon == Find(url, <<":">>, 1)
        hasScheme == /\ colon > 1
                     /\ url[1] \in Letters
                     /\ \A i \in 1..(colon - 1) : url[i] \in SchemeChars
        scheme == IF hasScheme THEN Lower(SubSeq(url, 1, colon - 1)) ELSE <<>>
        rest == IF hasScheme THEN SubSeq(url, colon + 1, Len(url)) ELSE url
        hasNetloc == Len(rest) >= 2 /\ SubSeq(rest, 1, 2) = <<"/", "/">>
        netloc == IF hasNetloc THEN SubSeq(rest, 3, FirstOf(rest, {"/", "?", "#"}, 3) - 1)
                  ELSE <<>>
        open == \E i \in 1..Len(netloc) : netloc[i] = "["
        close == \E i \in 1..Len(netloc) : netloc[i] = "]"
    IN [raises |-> open # close, scheme |-> scheme, netloc |-> netloc]

\* A slip in line 162: `and` for `or`.
InvalidUrlFormatBothMissing(parsed_url) == parsed_url.scheme = <<>> /\ parsed_url.netloc = <<>>

\* line 162: not parsed_url.scheme or not parsed_url.netloc
InvalidUrlFormat(parsed_url) == parsed_url.scheme = <<>> \/ parsed_url.netloc = <<>>

\* The names of line 177.
SiteNames == {<<"f", "l", "i", "p", "k", "a", "r", "t">>,
              <<"a", "m", "a", "z", "o", "n">>,
              <<"m", "e", "e", "s", "h", "o">>,
              <<"m", "y", "n", "t", "r", "a">>,
              <<"e", "b", "a", "y">>,
              <<"w", "a", "l", "m", "a", "r", "t">>}

\* line 177
e_commerce_sites == {<<".">> \o name \o <<".">> : name \in SiteNames}

\* line 178: any(site in url.lower() for site in e_commerce_sites)
is_ecommerce(url) == \E site \in e_commerce_sites : Contains(Lower(url), site)

\* The request URLs.
UrlNoSchemeNoHost == <<"a", "m", "a", "z", "o", "n">>
UrlNoHost == <<"h", "t", "t", "p", ":", "/", "/">>
UrlNoScheme == <<"/", "/", "a", ".", "c", "o", "m">>
UrlBracket == <<"h", "t", "t", "p", ":", "/", "/", "[", "a">>
UrlShopSubdomain == <<"h", "t", "t", "p", ":", "/", "/", "S", "h", "o", "p", ".", "F", "l", "i", "p", "k", "a", "r", "t", ".", "c", "o", "m", "/", "x">>
UrlBareDomain == <<"h", "t", "t", "p", "s", ":", "/", "/", "a", "m", "a", "z", "o", "n", ".", "c", "o", "m", "/", "x">>
UrlSiteInPath == <<"h", "t", "t", "p", ":", "/", "/", "a", ".", "c", "o", "m", "/", ".", "e", "b", "a", "y", ".", "/", "x">>
UrlPlain == <<"h", "t", "t", "p", ":", "/", "/", "a", ".", "c", "o", "m", "/", "x">>

Urls == {UrlNoSchemeNoHost, UrlNoHost, UrlNoScheme, UrlBracket,
         UrlShopSubdomain, UrlBareDomain, UrlSiteInPath, UrlPlain}

(***************************************************************************)
(* Model selection at process startup (lines 22-61)                        *)
(***************************************************************************)

\* lines 32-36
model_candidates == <<"models/gemini-1.5-flash", "models/chat-bison-001", "models/text-bison-001">>

\* line 58
LastResort == "models/gemini-1.5-flash-latest"

\* One provider call of startup, as logged.
Call(what, name, ok) == [call |-> what, model |-> name, ok |-> ok]

\* Where the module-level code is once the for loop is over (line 54).
AfterLoop(m) == IF m = None THEN "fallback" ELSE "done"

\* The end of one iteration that raised (lines 49-51): the next candidate,
\* or the end of the loop.
NextIteration(i, m) ==
    IF i < Len(model_candidates) THEN [spc |-> "construct", ci |-> i + 1]
    ELSE [spc |-> AfterLoop(m), ci |-> i]

\* A slip: no break, the loop goes on after a verified candidate.
BreakMissing(i, m) == NextIteration(i, m)

\* line 48: break
Break(i, m) == [spc |-> AfterLoop(m), ci |-> i]

\* line 27: genai.list_models() returns
ListModelsOk ==
    /\ spc = "list_models"
    /\ calls' = Append(calls, Call("list_models", None, TRUE))
    /\ spc' = "construct"
    /\ ci' = 1
    /\ UNCHANGED <<model, assigned, workers, normVars>>

\* line 27 raises: the outer handler (lines 59-61) ends startup
ListModelsRaises ==
    /\ spc = "list_models"
    /\ calls' = Append(calls, Call("list_models", None, FALSE))
    /\ spc' = "done"
    /\ UNCHANGED <<model, ci, assigned, workers, normVars>>

\* line 42: model = genai.GenerativeModel(candidate)
ConstructOk ==
    /\ spc = "construct"
    /\ calls' = Append(calls, Call("construct", model_candidates[ci], TRUE))
    /\ model' = model_candidates[ci]
    /\ assigned' = Append(assigned, model_candidates[ci])
    /\ spc' = "generate"
    /\ UNCHANGED <<ci, workers, normVars>>

\* line 42 raises: lines 49-51, `model` is not assigned
ConstructRaises ==
    /\ spc = "construct"
    /\ calls' = Append(calls, Call("construct", model_candidates[ci], FALSE))
    /\ spc' = NextIteration(ci, model).spc
    /\ ci' = NextIteration(ci, model).ci
    /\ UNCHANGED <<model, assigned, workers, normVars>>

\* line 45: model.generate_content("Hello") returns, then line 48
SmokeTestOk ==
    /\ spc = "generate"
    /\ calls' = Append(calls, Call("generate", model_candidates[ci], TRUE))
    /\ spc' = Break(ci, model).spc
    /\ ci' = Break(ci, model).ci
    /\ UNCHANGED <<model, assigned, workers, normVars>>

\* line 45 raises: lines 49-51, `model` keeps the handle line 42 gave it
SmokeTestRaises ==
    /\ spc = "generate"
    /\ calls' = Append(calls, Call("generate", model_candidates[ci], FALSE))
    /\ spc' = NextIteration(ci, model).spc
    /\ ci' = NextIteration(ci, model).ci
    /\ UNCHANGED <<model, assigned, workers, normVars>>

\* line 58: model = genai.GenerativeModel('models/gemini-1.5-flash-latest')
FallbackOk ==
    /\ spc = "fallback"
    /\ calls' = Append(calls, Call("construct", LastResort, TRUE))
    /\ model' = LastResort
    /\ assigned' = Append(assigned, LastResort)
    /\ spc' = "done"
    /\ UNCHANGED <<ci, workers, normVars>>

\* line 58 raises: lines 59-61
FallbackRaises ==
    /\ spc = "fallback"
    /\ calls' = Append(calls, Call("construct", LastResort, FALSE))
    /\ spc' = "done"
    /\ UNCHANGED <<model, ci, assigned, workers, normVars>>

Startup ==
    \/ ListModelsOk \/ ListModelsRaises
    \/ ConstructOk \/ ConstructRaises
    \/ SmokeTestOk \/ SmokeTestRaises
    \/ FallbackOk \/ FallbackRaises

(***************************************************************************)
(* Requests                                                                *)
(***************************************************************************)

\* The worker threads of the server.
Workers == {"w1", "w2"}

\* line 194: the least length of usable content
MinContentLen == 100
\* line 209: content[:8000]
MaxPromptContent == 8000

\* A request body as request.get_json() sees it: not JSON (get_json raises),
\* JSON that is no object (data.get raises), or an object in which the
\* handler's key is present with value `val`, or absent.
NoJson == [kind |-> "nojson", has |-> FALSE, val |-> <<>>]
NotDict == [kind |-> "notdict", has |-> FALSE, val |-> <<>>]
Dict(has, val) == [kind |-> "dict", has |-> has, val |-> val]

\* data.get(key, '')
Get(data) == IF data.has THEN data.val ELSE <<>>

ReviewGood == <<"g", "o", "o", "d">>

AnalyzeBodies == {NoJson, NotDict, Dict(FALSE, <<>>), Dict(TRUE, <<>>), Dict(TRUE, ReviewGood)}
ScrapeBodies == {NoJson, NotDict, Dict(FALSE, <<>>), Dict(TRUE, <<>>)} \cup {Dict(TRUE, u) : u \in Urls}

\* What trafilatura.extract returns: None, or text of some length.
NoContent == [none |-> TRUE, len |-> 0]
Contents == {NoContent} \cup
            {[none |-> FALSE, len |-> n] :
                n \in {0, MinContentLen - 1, MinContentLen, MaxPromptContent + 1}}

\* The minified JSON object {"a":1}.
ObjA == <<"{", "\"", "a", "\"", ":", "1", "}">>

\* What the provider answers the analysis prompt with: a minified object, the
\* object in a JSON-tagged block between prose, the object in a generic block,
\* prose, and prose in a JSON-tagged block.
ResponseTexts ==
    {ObjA,
     <<"x">> \o FenceJson \o <<"\n">> \o ObjA \o <<"\n">> \o Fence \o <<"x">>,
     Fence \o <<"\n">> \o ObjA \o <<"\n">> \o Fence,
     <<"x">>,
     FenceJson \o <<"x">> \o Fence}

\* Response bodies.
NoBody == [kind |-> "none", error |-> "", raw_response |-> <<>>, json |-> JErr]
ErrorBody(msg) == [kind |-> "error", error |-> msg, raw_response |-> <<>>, json |-> JErr]
JsonBody(value) == [kind |-> "json", error |-> "", raw_response |-> <<>>, json |-> value]

\* A slip in lines 139-142: the extracted string is returned as raw_response.
ParseErrorBodyExtracted(text, extracted) ==
    [kind |-> "parse_error", error |-> "Failed to parse the response from Gemini API",
     raw_response |-> extracted, json |-> JErr]

\* lines 139-142 / 271-274
ParseErrorBody(text, extracted) ==
    [kind |-> "parse_error", error |-> "Failed to parse the response from Gemini API",
     raw_response |-> text, json |-> JErr]

\* A slip in lines 131-134: the cleaned string is returned without json.loads.
ParsedResponseUnchecked(text, extracted) ==
    [status |-> 200, body |-> JsonBody(JsonLoads(extracted))]

\* lines 131-142 / 263-274: the parsed value with 200, or the parse error
\* with 500
ParsedResponse(text, extracted) ==
    IF JsonLoads(extracted) # JErr
    THEN [status |-> 200, body |-> JsonBody(JsonLoads(extracted))]
    ELSE [status |-> 500, body |-> ParseErrorBody(text, extracted)]

\* A slip in line 194: `and` for `or`, so that short content passes.
InsufficientContentOnlyNone(content) == content.none

\* line 194: not content or len(content) < 100
InsufficientContent(content) == content.none \/ content.len = 0 \/ content.len < MinContentLen

\* line 209: len(content[:8000])
PromptContentLen(content) == IF content.len > MaxPromptContent THEN MaxPromptContent ELSE content.len

\* A worker between requests, and the locals of a handler before it sets them.
Idle ==
    [pc |-> "idle", route |-> None, data |-> NoJson,
     fetches |-> 0, generates |-> <<>>,
     downloaded |-> "unset", content |-> NoContent, prompt_content |-> 0,
     review_text |-> "unset", got_response |-> FALSE, resp_text |-> <<>>, extracted |-> <<>>,
     status |-> 0, body |-> NoBody]

\* return jsonify(...), status
Respond(wr, status, body) == [wr EXCEPT !.pc = "done", !.status = status, !.body = body]

\* lines 117-142 / 250-274 on the text the provider returned
Normalize(wr, text) ==
    LET extracted == CleanJson(ExtractJson(text))
        r == ParsedResponse(text, extracted)
    IN Respond([wr EXCEPT !.got_response = TRUE, !.resp_text = text, !.extracted = extracted],
               r.status, r.body)

\* A request arrives at an idle worker (the server serves once the module
\* is loaded).
Receive(w) ==
    /\ spc = "done"
    /\ workers[w].pc = "idle"
    /\ \E route \in {"/analyze", "/scrape", "/health"} :
         \E data \in (CASE route = "/analyze" -> AnalyzeBodies
                        [] route = "/scrape" -> ScrapeBodies
                        [] OTHER -> {NoJson}) :
            workers' = [workers EXCEPT ![w] = [Idle EXCEPT !.pc = "start", !.route = route, !.data = data]]
    /\ UNCHANGED <<startupVars, normVars>>

\* lines 281-283
HealthCheck(w) ==
    /\ workers[w].pc = "start" /\ workers[w].route = "/health"
    /\ workers' = [workers EXCEPT ![w] =
                      Respond(@, 200, JsonBody(JObj(<<JStr(<<"s", "t", "a", "t", "u", "s">>), JStr(<<"o", "k">>)>>)))]
    /\ UNCHANGED <<startupVars, normVars>>

\* lines 71-77, and lines 144-146 for what get_json or data.get raises
AnalyzeValidate(w) ==
    LET wr == workers[w] IN
    /\ wr.pc = "start" /\ wr.route = "/analyze"
    /\ workers' = [workers EXCEPT ![w] =
          IF wr.data.kind = "nojson" THEN Respond(wr, 500, ErrorBody("An error occurred: BadRequest"))
          ELSE IF wr.data.kind = "notdict" THEN Respond(wr, 500, ErrorBody("An error occurred: AttributeError"))
          ELSE IF Get(wr.data) = <<>> THEN Respond(wr, 400, ErrorBody("No review text provided"))
          ELSE [wr EXCEPT !.pc = "generate"]]
    /\ UNCHANGED <<startupVars, normVars>>

\* line 114 with model = None: AttributeError, lines 144-146
AnalyzeNoModel(w) ==
    LET wr == workers[w] IN
    /\ wr.pc = "generate" /\ wr.route = "/analyze"
    /\ model = None
    /\ workers' = [workers EXCEPT ![w] = Respond(wr, 500, ErrorBody("An error occurred: AttributeError"))]
    /\ UNCHANGED <<startupVars, normVars>>

\* lines 114-117: the provider call or response.text raises, lines 144-146
AnalyzeProviderRaises(w) ==
    LET wr == workers[w] IN
    /\ wr.pc = "generate" /\ wr.route = "/analyze"
    /\ model # None
    /\ workers' = [workers EXCEPT ![w] =
          Respond([wr EXCEPT !.generates = Append(@, "raised")], 500,
                  ErrorBody("An error occurred: ProviderError"))]
    /\ UNCHANGED <<startupVars, normVars>>

\* lines 114-142: the provider returns a text
AnalyzeProviderReturns(w) ==
    LET wr == workers[w] IN
    /\ wr.pc = "generate" /\ wr.route = "/analyze"
    /\ model # None
    /\ \E text \in ResponseTexts :
          workers' = [workers EXCEPT ![w] = Normalize([wr EXCEPT !.generates = Append(@, "ok")], text)]
    /\ UNCHANGED <<startupVars, normVars>>

\* lines 151-165, and lines 276-278 for what get_json or data.get raises
ScrapeValidate(w) ==
    LET wr == workers[w]
        url == Get(wr.data)
    IN
    /\ wr.pc = "start" /\ wr.route = "/scrape"
    /\ workers' = [workers EXCEPT ![w] =
          IF wr.data.kind = "nojson" THEN Respond(wr, 500, ErrorBody("An error occurred: BadRequest"))
          ELSE IF wr.data.kind = "notdict" THEN Respond(wr, 500, ErrorBody("An error occurred: AttributeError"))
          ELSE IF url = <<>> THEN Respond(wr, 400, ErrorBody("No URL provided"))
          ELSE IF urlparse(url).raises THEN Respond(wr, 400, ErrorBody("Invalid URL"))
          ELSE IF InvalidUrlFormat(urlparse(url)) THEN Respond(wr, 400, ErrorBody("Invalid URL format"))
          ELSE [wr EXCEPT !.pc = "fetch"]]
    /\ UNCHANGED <<startupVars, normVars>>

\* line 172 raises: lines 199-201
ScrapeFetchRaises(w) ==
    LET wr == workers[w] IN
    /\ wr.pc = "fetch"
    /\ workers' = [workers EXCEPT ![w] =
          Respond([wr EXCEPT !.fetches = @ + 1], 500, ErrorBody("Error scraping website"))]
    /\ UNCHANGED <<startupVars, normVars>>

\* lines 172-190: the download yields nothing
ScrapeFetchNothing(w) ==
    LET wr == workers[w]
        got == [wr EXCEPT !.fetches = @ + 1, !.downloaded = "nothing"]
    IN
    /\ wr.pc = "fetch"
    /\ workers' = [workers EXCEPT ![w] =
          IF is_ecommerce(Get(wr.data))
          THEN Respond(got, 429, ErrorBody("This e-commerce website has bot protection that prevents scraping."))
          ELSE Respond(got, 400, ErrorBody("Failed to access this URL."))]
    /\ UNCHANGED <<startupVars, normVars>>

\* line 172: the download yields a page
ScrapeFetchOk(w) ==
    LET wr == workers[w] IN
    /\ wr.pc = "fetch"
    /\ workers' = [workers EXCEPT ![w] = [wr EXCEPT !.fetches = @ + 1, !.downloaded = "html", !.pc = "extract"]]
    /\ UNCHANGED <<startupVars, normVars>>

\* line 193 raises: lines 199-201
ScrapeExtractRaises(w) ==
    LET wr == workers[w] IN
    /\ wr.pc = "extract"
    /\ workers' = [workers EXCEPT ![w] = Respond(wr, 500, ErrorBody("Error scraping website"))]
    /\ UNCHANGED <<startupVars, normVars>>

\* lines 193-198, and the slice of line 209
ScrapeExtract(w) ==
    LET wr == workers[w] IN
    /\ wr.pc = "extract"
    /\ \E content \in Contents :
          workers' = [workers EXCEPT ![w] =
             IF InsufficientContent(content)
             THEN Respond([wr EXCEPT !.content = content], 400,
                          ErrorBody("Could not extract readable content from this URL."))
             ELSE [wr EXCEPT !.content = content, !.prompt_content = PromptContentLen(content),
                             !.pc = "review"]]
    /\ UNCHANGED <<startupVars, normVars>>

\* line 223 with model = None: AttributeError, lines 276-278
ScrapeNoModel(w) ==
    LET wr == workers[w] IN
    /\ wr.pc = "review"
    /\ model = None
    /\ workers' = [workers EXCEPT ![w] = Respond(wr, 500, ErrorBody("An error occurred: AttributeError"))]
    /\ UNCHANGED <<startupVars, normVars>>

\* lines 223-224: the first provider call or response.text raises
ScrapeReviewRaises(w) ==
    LET wr == workers[w] IN
    /\ wr.pc = "review"
    /\ model # None
    /\ workers' = [workers EXCEPT ![w] =
          Respond([wr EXCEPT !.generates = Append(@, "raised")], 500,
                  ErrorBody("An error occurred: ProviderError"))]
    /\ UNCHANGED <<startupVars, normVars>>

\* lines 223-224: the first provider call returns the review
ScrapeReviewReturns(w) ==
    LET wr == workers[w] IN
    /\ wr.pc = "review"
    /\ model # None
    /\ workers' = [workers EXCEPT ![w] =
          [wr EXCEPT !.generates = Append(@, "ok"), !.review_text = "review", !.pc = "analysis"]]
    /\ UNCHANGED <<startupVars, normVars>>

\* lines 249-250: the second provider call or its .text raises
ScrapeAnalysisRaises(w) ==
    LET wr == workers[w] IN
    /\ wr.pc = "analysis"
    /\ workers' = [workers EXCEPT ![w] =
          Respond([wr EXCEPT !.generates = Append(@, "raised")], 500,
                  ErrorBody("An error occurred: ProviderError"))]
    /\ UNCHANGED <<startupVars, normVars>>

\* lines 249-274: the second provider call returns a text
ScrapeAnalysisReturns(w) ==
    LET wr == workers[w] IN
    /\ wr.pc = "analysis"
    /\ \E text \in ResponseTexts :
          workers' = [workers EXCEPT ![w] = Normalize([wr EXCEPT !.generates = Append(@, "ok")], text)]
    /\ UNCHANGED <<startupVars, normVars>>

\* The response is sent and the worker is free again.
Finish(w) ==
    /\ workers[w].pc = "done"
    /\ workers' = [workers EXCEPT ![w] = Idle]
    /\ UNCHANGED <<startupVars, normVars>>

Init ==
    /\ spc = "list_models"
    /\ model = None
    /\ ci = 0
    /\ calls = <<>>
    /\ assigned = <<>>
    /\ workers = [w \in Workers |-> Idle]
    /\ npc = "off" /\ response_text = <<>> /\ json_str = <<>> /\ analysis = JErr

Handle(w) ==
    \/ Receive(w) \/ HealthCheck(w) \/ Finish(w)
    \/ AnalyzeValidate(w) \/ AnalyzeNoModel(w)
    \/ AnalyzeProviderRaises(w) \/ AnalyzeProviderReturns(w)
    \/ ScrapeValidate(w)
    \/ ScrapeFetchRaises(w) \/ ScrapeFetchNothing(w) \/ ScrapeFetchOk(w)
    \/ ScrapeExtractRaises(w) \/ ScrapeExtract(w)
    \/ ScrapeNoModel(w) \/ ScrapeReviewRaises(w) \/ ScrapeReviewReturns(w)
    \/ ScrapeAnalysisRaises(w) \/ ScrapeAnalysisReturns(w)

Next == Startup \/ \E w \in Workers : Handle(w)

Spec == Init /\ [][Next]_vars

(***************************************************************************)
(* The normalisation pipeline on its own: one provider response text,      *)
(* extracted and cleaned (lines 121-129), then parsed (lines 131-142).     *)
(***************************************************************************)

\* The most pieces a generated response text is made of.
MaxPieces == 4

\* What a provider response is made of here: both fences, a lone backquote,
\* a newline, a letter of prose, a minified JSON object, a double quote.
Pieces == {FenceJson, Fence, <<BQ>>, <<"\n">>, <<"x">>, ObjA, <<"\"">>}

RECURSIVE Texts(_)
Texts(k) ==
    IF k = 0 THEN {<<>>}
    ELSE LET shorter == Texts(k - 1)
         IN shorter \cup {t \o p : t \in shorter, p \in Pieces}

InitNorm ==
    /\ spc = "done" /\ model = None /\ ci = 0 /\ calls = <<>> /\ assigned = <<>>
    /\ workers = [w \in Workers |-> Idle]
    /\ npc = "response"
    /\ response_text \in Texts(MaxPieces)
    /\ json_str = <<>>
    /\ analysis = JErr

\* lines 121-129: extract, then clean
NormExtract ==
    /\ npc = "response"
    /\ json_str' = CleanJson(ExtractJson(response_text))
    /\ npc' = "extracted"
    /\ UNCHANGED <<response_text, analysis, startupVars, workers>>

\* lines 131-142: json.loads, or the JSONDecodeError branch
NormParse ==
    /\ npc = "extracted"
    /\ analysis' = JsonLoads(json_str)
    /\ npc' = IF JsonLoads(json_str) = JErr THEN "parse_error" ELSE "parsed"
    /\ UNCHANGED <<response_text, json_str, startupVars, workers>>

NextNorm == NormExtract \/ NormParse

SpecNorm == InitNorm /\ [][NextNorm]_vars

(***************************************************************************)
(* Properties of the normalisation pipeline                                *)
(***************************************************************************)

\* The interior of the JSON-tagged block of `text`, by position: from after
\* the first JSON-tagged fence to before the next fence marker (to the end
\* of the text when no fence follows).
JsonFenceAt(text) == Find(text, FenceJson, 1)
InteriorStart(text) == JsonFenceAt(text) + Len(FenceJson)
ClosingFenceAt(text) == Find(text, Fence, InteriorStart(text))
FencedInterior(text) ==
    SubSeq(text, InteriorStart(text),
           IF ClosingFenceAt(text) = 0 THEN Len(text) ELSE ClosingFenceAt(text) - 1)

\* C1: for every response text that contains a JSON-tagged fence, the string
\* handed to the JSON parser is the interior of that block, newlines replaced
\* by spaces and trimmed: nothing before the opening fence and nothing after
\* the closing fence is in it.
C1_OnlyFencedInterior ==
    (npc # "response" /\ Contains(response_text, FenceJson))
        => json_str = Strip(ReplaceNewlines(FencedInterior(response_text)))

\* A valid minified JSON text: it parses, holds no newline and no
\* surrounding whitespace.
IsMinifiedJson(text) ==
    /\ JsonLoads(text) # JErr
    /\ \A i \in 1..Len(text) : text[i] # "\n"
    /\ Strip(text) = text

\* C3: for every valid minified JSON text, fence markers inside its string
\* values included, the pipeline returns the value that parsing the text
\* directly returns.
C3_IdempotentOnCleanJson ==
    (npc \in {"parsed", "parse_error"} /\ IsMinifiedJson(response_text))
        => analysis = JsonLoads(response_text)

(***************************************************************************)
(* Properties of startup                                                   *)
(***************************************************************************)

\* The place of a candidate in model_candidates.
CandidateIndex(name) == CHOOSE k \in 1..Len(model_candidates) : model_candidates[k] = name
IsCandidate(name) == \E k \in 1..Len(model_candidates) : model_candidates[k] = name

\* The positions in `calls` where a candidate is constructed.
Constructions == {i \in 1..Len(calls) : calls[i].call = "construct" /\ IsCandidate(calls[i].model)}
SmokeTests == {i \in 1..Len(calls) : calls[i].call = "generate"}

\* Every candidate has failed: each has a call that raised.
AllCandidatesFailed ==
    \A k \in 1..Len(model_candidates) :
        \E i \in 1..Len(calls) : calls[i].model = model_candidates[k] /\ ~calls[i].ok

\* C4: when every candidate has failed, by its construction or by its smoke
\* test, startup ends with the last-resort identifier as the handle (unless
\* constructing the last resort itself raised), not with a failed candidate.
C4_AllFailedGivesLastResort ==
    (spc = "done" /\ AllCandidatesFailed
        /\ \A i \in 1..Len(calls) : calls[i] # Call("construct", LastResort, FALSE))
    => model = LastResort

\* C5: the candidates are constructed in list order, each at most once; a
\* smoke test follows the successful construction of the same candidate and
\* nothing else; the first candidate whose smoke test succeeds is the handle,
\* and no call follows it.
C5_InOrderOnceFirstSuccessWins ==
    /\ \A i \in Constructions :
          CandidateIndex(calls[i].model) = Cardinality({j \in Constructions : j <= i})
    /\ \A i \in SmokeTests :
          /\ i > 1 /\ calls[i - 1] = Call("construct", calls[i].model, TRUE)
          /\ \A j \in SmokeTests : calls[j].model = calls[i].model => j = i
    /\ \A i \in 1..Len(calls) :
          (calls[i].call = "construct" /\ IsCandidate(calls[i].model) /\ calls[i].ok)
             => (i = Len(calls) /\ spc = "generate") \/ (i < Len(calls) /\ (i + 1) \in SmokeTests)
    /\ \A i \in SmokeTests :
          calls[i].ok => (i = Len(calls) /\ spc = "done" /\ model = calls[i].model)

\* C5 witness: the first candidate failed its smoke test, the second passed
\* and is the handle.
C5_Witness ==
    /\ spc = "done"
    /\ Len(calls) = 5
    /\ calls[3] = Call("generate", model_candidates[1], FALSE)
    /\ calls[5] = Call("generate", model_candidates[2], TRUE)
    /\ model = model_candidates[2]

\* C6: `model` is assigned a handle at most once in the life of the process,
\* and once startup is over its value never changes.
C6_AssignedAtMostOnce ==
    /\ [](Len(assigned) <= 1)
    /\ [][spc = "done" => model' = model]_vars

(***************************************************************************)
(* Properties of the handlers                                              *)
(***************************************************************************)

\* What the pipeline makes of a worker's provider response.
Reparsed(wr) == JsonLoads(CleanJson(ExtractJson(wr.resp_text)))

\* C2: when the extracted and cleaned response does not parse, the handler
\* ends with 500, an error message and raw_response equal to the provider's
\* own text, after exactly one provider call in /analyze and two in /scrape.
C2_ParseFailureReturnsRawResponse ==
    \A w \in Workers :
        LET wr == workers[w] IN
        (wr.pc = "done" /\ wr.got_response /\ Reparsed(wr) = JErr)
        => /\ wr.status = 500
           /\ wr.body.kind = "parse_error"
           /\ wr.body.error # ""
           /\ wr.body.raw_response = wr.resp_text
           /\ Len(wr.generates) = (IF wr.route = "/analyze" THEN 1 ELSE 2)

\* C2 witness: /scrape got prose in a JSON-tagged block from its second call;
\* what was extracted differs from what the provider sent.
C2_Witness ==
    \E w \in Workers :
        /\ workers[w].pc = "done" /\ workers[w].route = "/scrape"
        /\ workers[w].status = 500
        /\ workers[w].resp_text = FenceJson \o <<"x">> \o Fence
        /\ workers[w].extracted = <<"x">>
        /\ workers[w].body.raw_response = workers[w].resp_text

\* The host of a URL names one of the e-commerce sites: one of the labels
\* of its netloc is the site's name.
HostMatches(url) ==
    LET labels == Split(Lower(urlparse(url).netloc), <<".">>)
    IN \E i \in 1..Len(labels) : labels[i] \in SiteNames

\* C7: when the download of a valid URL yields nothing, the response is 429
\* exactly when the URL's host names one of the e-commerce sites, whatever
\* its path, and with or without a subdomain; it is 400 otherwise.
C7_BotProtectedIffHostMatches ==
    \A w \in Workers :
        LET wr == workers[w] IN
        (wr.pc = "done" /\ wr.route = "/scrape" /\ wr.downloaded = "nothing")
        => /\ wr.status = 429 <=> HostMatches(Get(wr.data))
           /\ wr.status = 400 <=> ~HostMatches(Get(wr.data))

\* A request input validation rejects: no review or an empty one; no url, an
\* empty one, or one without a scheme or without a host.
Rejected(wr) ==
    /\ wr.data.kind = "dict"
    /\ \/ wr.route = "/analyze" /\ Get(wr.data) = <<>>
       \/ /\ wr.route = "/scrape"
          /\ \/ Get(wr.data) = <<>>
             \/ urlparse(Get(wr.data)).scheme = <<>>
             \/ urlparse(Get(wr.data)).netloc = <<>>

\* C8: a request that input validation rejects gets 400 and makes no provider
\* call and no page fetch.
C8_RejectedBeforeAnyExternalCall ==
    \A w \in Workers :
        LET wr == workers[w] IN
        (wr.pc # "idle" /\ Rejected(wr))
        => /\ wr.pc \in {"start", "done"}
           /\ wr.fetches = 0 /\ wr.generates = <<>>
           /\ wr.pc = "done" => wr.status = 400

\* C8 witness: the url "amazon" (no scheme, no host) was answered 400 with no
\* fetch made.
C8_Witness ==
    \E w \in Workers :
        /\ workers[w].pc = "done" /\ workers[w].route = "/scrape"
        /\ workers[w].data = Dict(TRUE, UrlNoSchemeNoHost)
        /\ workers[w].status = 400 /\ workers[w].fetches = 0

\* C9: /scrape makes at most two provider calls; the first only after the
\* download succeeded and at least 100 characters were extracted, the second
\* only after the first returned; if either raised, the response is 500 with
\* an error and nothing else.
C9_ScrapeStepsInOrder ==
    \A w \in Workers :
        LET wr == workers[w] IN
        wr.route = "/scrape"
        => /\ Len(wr.generates) <= 2
           /\ (Len(wr.generates) >= 1 \/ wr.pc \in {"review", "analysis"})
                => /\ wr.fetches = 1 /\ wr.downloaded = "html"
                   /\ ~wr.content.none /\ wr.content.len >= MinContentLen
           /\ (Len(wr.generates) = 2 \/ wr.pc = "analysis")
                => wr.generates[1] = "ok" /\ wr.review_text = "review"
           /\ (wr.pc = "done" /\ \E i \in 1..Len(wr.generates) : wr.generates[i] = "raised")
                => /\ wr.status = 500
                   /\ wr.body.kind = "error" /\ wr.body.error # ""
                   /\ wr.body.raw_response = <<>> /\ wr.body.json = JErr

\* C9 witness: the second call raised after the first returned.
C9_Witness ==
    \E w \in Workers :
        /\ workers[w].pc = "done" /\ workers[w].route = "/scrape"
        /\ workers[w].generates = <<"ok", "raised">>
        /\ workers[w].status = 500

\* A request that passes input validation.
ValidRequest(wr) ==
    /\ wr.data.kind = "dict"
    /\ Get(wr.data) # <<>>
    /\ wr.route = "/scrape"
         => /\ ~urlparse(Get(wr.data)).raises
            /\ urlparse(Get(wr.data)).scheme # <<>>
            /\ urlparse(Get(wr.data)).netloc # <<>>

\* The statuses of the handlers.
Statuses == {200, 400, 429, 500}

\* Every finished request has one response with a body and a status of the
\* handlers, and 200 only with the value the cleaned response text parsed to.
ClassifiedResponse(wr) ==
    /\ wr.status \in Statuses
    /\ wr.body.kind # "none"
    /\ wr.status = 200
         => /\ wr.got_response /\ Reparsed(wr) # JErr
            /\ wr.body = JsonBody(Reparsed(wr))
    /\ wr.status # 200 => wr.body.kind \in {"error", "parse_error"} /\ wr.body.error # ""

\* C10: every /analyze and /scrape request ends with one response whose
\* status is 200, 400, 429 or 500; a valid non-empty request handled while
\* the handle is unset gets 500 with an error; 200 is returned only when the
\* cleaned response parsed.
C10_EveryRequestClassified ==
    \A w \in Workers :
        LET wr == workers[w] IN
        (wr.pc = "done" /\ wr.route \in {"/analyze", "/scrape"})
        => /\ ClassifiedResponse(wr)
           /\ (model = None /\ ValidRequest(wr))
                => wr.status = 500 /\ wr.body.kind = "error"

\* The request got as far as a provider call: past validation, and for
\* /scrape past the download and the extraction of enough content.
ReachedProvider(wr) ==
    /\ ValidRequest(wr)
    /\ wr.route = "/scrape"
         => /\ wr.downloaded = "html"
            /\ ~wr.content.none /\ wr.content.len >= MinContentLen

\* C10 as amended: as C10, but it is a request that got as far as a provider
\* call while the handle is unset that gets 500 with an error; a /scrape
\* request whose download or extraction fails first gets that failure's
\* status.
C10_EveryRequestClassifiedAmended ==
    \A w \in Workers :
        LET wr == workers[w] IN
        (wr.pc = "done" /\ wr.route \in {"/analyze", "/scrape"})
        => /\ ClassifiedResponse(wr)
           /\ (model = None /\ ReachedProvider(wr))
                => wr.status = 500 /\ wr.body.kind = "error"

\* C10 witness: with the handle unset, /scrape fetched and extracted enough
\* content and then answered 500.
C10_Witness ==
    \E w \in Workers :
        /\ model = None
        /\ workers[w].pc = "done" /\ workers[w].route = "/scrape"
        /\ workers[w].content.len >= MinContentLen
        /\ workers[w].status = 500 /\ workers[w].body.kind = "error"

====
